---- MODULE Spec2Model ----
(***************************************************************************)
(* State-machine model of the CryptoConverter widget                        *)
(* (src/unnamed/part_000): the price cache with its 60 s expiration, the   *)
(* price fetch through the cache, the conversion flow and the price panels,*)
(* and of the transfer form (src/assets/transfer.js), the script of a page *)
(* of its own that shares no state with the widget.                        *)
(*                                                                         *)
(* JavaScript runs one handler at a time: an action below is everything a  *)
(* handler does from the moment it is entered up to its first pending      *)
(* await, or everything the continuation of a settled fetch does (the      *)
(* promise reactions run as microtasks of the same task).                   *)
(***************************************************************************)
EXTENDS Integers, Sequences, FiniteSets, TLC

\* ------------------------------------------------------------------ bounds
\* Number of clock advances in a run.
MaxTicks == 1
\* Number of user events in a run (selection changes and convert requests;
\* a convert request that arrives during a conversion is not counted).
MaxEvents == 1

\* The clock advances by one of these amounts (milliseconds).
TickSteps == {59999, 60000, 60001}

\* ------------------------------------------------------- program constants
\* this.cacheExpiration = 60 * 1000
cacheExpiration == 60000

\* The currency ids offered by the two selects (keys of this.cryptoNames).
Coins == {"bitcoin", "ethereum"}

\* this.cryptoNames
cryptoNames == [bitcoin |-> "BTC", ethereum |-> "ETH"]

\* ------------------------------------------------------ JavaScript values
\* A JavaScript value: a rational number n/d, or one of the special values.
Num(n) == [k |-> "num", n |-> n, d |-> 1]
NaN == [k |-> "NaN", n |-> 0, d |-> 1]
Infinity == [k |-> "Infinity", n |-> 0, d |-> 1]
NegInfinity == [k |-> "-Infinity", n |-> 0, d |-> 1]
Undefined == [k |-> "undefined", n |-> 0, d |-> 1]
Null == [k |-> "null", n |-> 0, d |-> 1]
\* The result of a promise that has not settled yet.
Pending == [k |-> "pending", n |-> 0, d |-> 1]

Abs(i) == IF i < 0 THEN -i ELSE i

RECURSIVE GCD(_, _)
GCD(a, b) == IF b = 0 THEN a ELSE GCD(b, a % b)

\* The rational n/d in lowest terms with a positive denominator (d # 0).
Rat(n, d) ==
    LET g == GCD(Abs(n), Abs(d))
        s == IF d < 0 THEN -1 ELSE 1
    IN  [k |-> "num", n |-> s * (n \div g), d |-> s * (d \div g)]

\* ToNumber: undefined becomes NaN, null becomes 0.
ToNumber(x) ==
    CASE x.k = "undefined" -> NaN
      [] x.k = "null" -> Num(0)
      [] OTHER -> x

Sign(x) ==
    CASE x.k = "Infinity" -> 1
      [] x.k = "-Infinity" -> -1
      [] x.k = "num" -> (IF x.n > 0 THEN 1 ELSE IF x.n < 0 THEN -1 ELSE 0)
      [] OTHER -> 0

IsInf(x) == x.k \in {"Infinity", "-Infinity"}

SignedInf(s) == IF s > 0 THEN Infinity ELSE NegInfinity

\* x * y of JavaScript.
Mul(x0, y0) ==
    LET x == ToNumber(x0)
        y == ToNumber(y0)
    IN  CASE x.k = "NaN" \/ y.k = "NaN" -> NaN
          [] IsInf(x) \/ IsInf(y) ->
                IF Sign(x) * Sign(y) = 0 THEN NaN ELSE SignedInf(Sign(x) * Sign(y))
          [] OTHER -> Rat(x.n * y.n, x.d * y.d)

\* x / y of JavaScript.
Div(x0, y0) ==
    LET x == ToNumber(x0)
        y == ToNumber(y0)
    IN  CASE x.k = "NaN" \/ y.k = "NaN" -> NaN
          [] IsInf(x) /\ IsInf(y) -> NaN
          [] IsInf(x) -> SignedInf(IF Sign(y) < 0 THEN -Sign(x) ELSE Sign(x))
          [] IsInf(y) -> Num(0)
          [] y.n = 0 -> IF x.n = 0 THEN NaN ELSE SignedInf(Sign(x))
          [] OTHER -> Rat(x.n * y.d, x.d * y.n)

\* isNaN(x)
isNaN(x) == ToNumber(x).k = "NaN"

\* x <= 0 of JavaScript (false when x is NaN).
LeqZero(x0) ==
    LET x == ToNumber(x0)
    IN  x.k = "-Infinity" \/ (x.k = "num" /\ x.n <= 0)

\* x >= 1 of JavaScript (false when x is NaN).
GeqOne(x0) ==
    LET x == ToNumber(x0)
    IN  x.k = "Infinity" \/ (x.k = "num" /\ x.n >= x.d)

RECURSIVE Pow10(_)
Pow10(e) == IF e = 0 THEN 1 ELSE 10 * Pow10(e - 1)

\* Number.prototype.toFixed(digits): the decimal string, kept as its sign, its
\* whole part and its fraction in units of 10^-digits (rounded half away from
\* zero), or "NaN" / "Infinity".
toFixed(x, digits) ==
    IF x.k = "num"
    THEN LET whole == Abs(x.n) \div x.d
             rem == Abs(x.n) % x.d
             f == (2 * rem * Pow10(digits) + x.d) \div (2 * x.d)
             carry == IF f = Pow10(digits) THEN 1 ELSE 0
         IN  [k |-> "fixed", negative |-> x.n < 0, whole |-> whole + carry,
              fraction |-> IF carry = 1 THEN 0 ELSE f, digits |-> digits]
    ELSE [k |-> x.k, negative |-> FALSE, whole |-> 0, fraction |-> 0,
          digits |-> digits]

\* parseFloat on a string given as its characters: an optional sign, then
\* "Infinity" or the longest prefix of decimal digits; NaN when there is none.
Digits == <<"0", "1", "2", "3", "4", "5", "6", "7", "8", "9">>
DigitVal(c) == (CHOOSE i \in 1..10 : Digits[i] = c) - 1
IsDigit(c) == \E i \in 1..10 : Digits[i] = c
InfinityChars == <<"I", "n", "f", "i", "n", "i", "t", "y">>

RECURSIVE ParseDigits(_, _, _)
ParseDigits(s, i, acc) ==
    IF i <= Len(s) /\ IsDigit(s[i])
    THEN ParseDigits(s, i + 1, 10 * acc + DigitVal(s[i]))
    ELSE acc

parseFloat(s) ==
    LET neg == Len(s) >= 1 /\ s[1] = "-"
        pos == Len(s) >= 1 /\ s[1] = "+"
        body == IF neg \/ pos THEN SubSeq(s, 2, Len(s)) ELSE s
    IN  IF Len(body) >= 8 /\ SubSeq(body, 1, 8) = InfinityChars
        THEN (IF neg THEN NegInfinity ELSE Infinity)
        ELSE IF Len(body) >= 1 /\ IsDigit(body[1])
        THEN Num((IF neg THEN -1 ELSE 1) * ParseDigits(body, 1, 0))
        ELSE NaN

\* ------------------------------------------------------------ price cache
\* this.priceCache is a Map: a function from the coin ids that have an entry
\* to {price, timestamp}.
EmptyCache == [c \in {} |-> [price |-> Undefined, timestamp |-> 0]]

\* Map.prototype.delete
MapDelete(cache, coinId) == [c \in (DOMAIN cache) \ {coinId} |-> cache[c]]

\* Map.prototype.set
MapSet(cache, coinId, entry) ==
    [c \in (DOMAIN cache) \cup {coinId} |-> IF c = coinId THEN entry ELSE cache[c]]

\* isExpired with the boundary on the wrong side: an entry expires at 60000 ms.
isExpiredAtBoundary(entry, t) == t - entry.timestamp >= cacheExpiration

\* The expiry test of getCachedPrice on an entry at time t.
isExpired(entry, t) == t - entry.timestamp > cacheExpiration

\* getCachedPrice(coinId) at time t: what it returns and the cache it leaves.
getCachedPrice(cache, coinId, t) ==
    IF coinId \notin DOMAIN cache
    THEN [ret |-> Null, cache |-> cache]
    ELSE IF isExpired(cache[coinId], t)
    THEN [ret |-> Null, cache |-> MapDelete(cache, coinId)]
    ELSE [ret |-> cache[coinId].price, cache |-> cache]

\* setCachedPrice that stamps the entry with the time the page was loaded.
setCachedPriceUnstamped(cache, coinId, price, t) ==
    MapSet(cache, coinId, [price |-> price, timestamp |-> 0])

\* setCachedPrice(coinId, price) at time t.
setCachedPrice(cache, coinId, price, t) ==
    MapSet(cache, coinId, [price |-> price, timestamp |-> t])

\* clearExpiredCache that also drops the entries aged exactly 60000 ms.
clearExpiredCacheAtBoundary(cache, t) ==
    [c \in {x \in DOMAIN cache : ~(t - cache[x].timestamp >= cacheExpiration)}
        |-> cache[c]]

\* clearExpiredCache() at time t.
clearExpiredCache(cache, t) ==
    [c \in {x \in DOMAIN cache : ~(t - cache[x].timestamp > cacheExpiration)}
        |-> cache[c]]

\* remainingSeconds that counts the age up instead of the rest down.
remainingSecondsGrowing(entry, t) == (t - entry.timestamp) \div 1000

\* The remaining seconds getCacheStatus computes for an entry at time t.
remainingSeconds(entry, t) == 60 - ((t - entry.timestamp) \div 1000)

\* statusShown that clamps at zero instead of hiding a zero.
statusShownFromZero(remaining) == remaining >= 0

\* Whether getCacheStatus shows the remaining seconds it computed.
statusShown(remaining) == remaining > 0

\* getCacheStatus(coinId) at time t: the "(cached Ns)" indicator, or the empty
\* string.
NoStatus == [shown |-> FALSE, seconds |-> 0]
getCacheStatus(cache, coinId, t) ==
    IF coinId \notin DOMAIN cache
    THEN NoStatus
    ELSE LET r == remainingSeconds(cache[coinId], t)
         IN  IF statusShown(r) THEN [shown |-> TRUE, seconds |-> r] ELSE NoStatus

\* ------------------------------------------------------------ price fetch
\* The USD prices the API reports during a run.
ApiPrice == [bitcoin |-> 2, ethereum |-> 4]

\* What the price API answers to one GET for coinId: the status is not 2xx,
\* the body is not JSON (response.json() rejects, as fetch() itself does on a
\* network error), or the body is a JSON object (a function from its field
\* names to their values) with or without a usd_price.
Responses(coinId) ==
    {[kind |-> "http_error", ok |-> FALSE, body |-> [message |-> Num(0)]],
     [kind |-> "bad_json", ok |-> TRUE, body |-> [message |-> Num(0)]],
     [kind |-> "json", ok |-> TRUE, body |-> [usd_price |-> Num(ApiPrice[coinId])]],
     [kind |-> "json", ok |-> TRUE, body |-> [message |-> Num(0)]]}

\* data.field of JavaScript on an object.
Field(obj, name) == IF name \in DOMAIN obj THEN obj[name] ELSE Undefined

\* The price fetchPrice takes from a parsed body.
priceOf(data) == Field(data, "usd_price")

\* Whether the try block of fetchPrice throws on this response.
fetchThrows(resp) == ~resp.ok \/ resp.kind = "bad_json"

\* fetchPrice that never looks into the cache.
fetchPriceCallNoCache(cache, coinId, t) ==
    [ret |-> Pending, cache |-> cache, sent |-> TRUE]

\* fetchPrice(coinId) up to its first await, at time t: the cache lookup. ret is
\* the price it returns at once, or Pending when it has sent a request.
fetchPriceCall(cache, coinId, t) ==
    LET g == getCachedPrice(cache, coinId, t)
    IN  IF g.ret # Null
        THEN [ret |-> g.ret, cache |-> g.cache, sent |-> FALSE]
        ELSE [ret |-> Pending, cache |-> g.cache, sent |-> TRUE]

\* fetchPrice(coinId) from the settling of its request, at time t.
fetchPriceSettle(cache, coinId, resp, t) ==
    IF fetchThrows(resp)
    THEN [rejected |-> TRUE, ret |-> Undefined, cache |-> cache]
    ELSE [rejected |-> FALSE, ret |-> priceOf(resp.body),
          cache |-> setCachedPrice(cache, coinId, priceOf(resp.body), t)]

\* ---------------------------------------------------------------- display
\* getCryptoDisplayName(coinId), for the ids of this.cryptoNames.
getCryptoDisplayName(coinId) == cryptoNames[coinId]

\* formatPrice(price): toLocaleString with 2..6 fraction digits from 1 up and
\* 6..10 below; it throws a TypeError on undefined or null.
formatPrice(price) ==
    [throws |-> price.k \in {"undefined", "null"},
     value |-> price,
     minDigits |-> IF GeqOne(price) THEN 2 ELSE 6,
     maxDigits |-> IF GeqOne(price) THEN 6 ELSE 10]

\* The innerHTML of a price panel.
PanelLoading == [k |-> "Loading...", name |-> "", price |-> formatPrice(Num(0)),
                 status |-> NoStatus]
PanelUnavailable == [k |-> "Price unavailable", name |-> "",
                     price |-> formatPrice(Num(0)), status |-> NoStatus]
PanelPrice(name, price, status) ==
    [k |-> "price", name |-> name, price |-> formatPrice(price), status |-> status]

\* The texts of the error region.
NoText == <<>>
SameCurrencyError == <<"Please select different cryptocurrencies for conversion.">>
InvalidAmountError(fromName) == <<"Please enter a valid ", fromName, " amount.">>
FetchError == <<"Error fetching prices. Please try again later.">>

\* The result message convert builds.
resultMessage(amount, fromName, convertedAmount, toName, usdAmount) ==
    <<[amount |-> toFixed(amount, 4), fromName |-> fromName,
       convertedAmount |-> toFixed(convertedAmount, 8), toName |-> toName,
       usdAmount |-> toFixed(usdAmount, 6)]>>

\* A region of the page: its textContent and whether it has class "hidden".
Region(text, hidden) == [text |-> text, hidden |-> hidden]

\* ------------------------------------------------------------- validation
\* The strings the amount field may hold when a conversion is requested.
AmountInputs ==
    {<<"a", "b", "c">>, <<"0">>, <<"-", "3">>, <<"1", "0">>, InfinityChars}

\* The amount test of validateInputs.
amountRejected(amount) == isNaN(amount) \/ LeqZero(amount)

\* validateInputs() on the amount field's string and the two selections.
validateInputs(amountValue, from, to) ==
    LET amount == parseFloat(amountValue)
    IN  IF from = to
        THEN [isValid |-> FALSE, error |-> SameCurrencyError, amount |-> amount]
        ELSE IF amountRejected(amount)
        THEN [isValid |-> FALSE,
              error |-> InvalidAmountError(getCryptoDisplayName(from)),
              amount |-> amount]
        ELSE [isValid |-> TRUE, error |-> NoText, amount |-> amount]

\* ------------------------------------------------------------------ state
VARIABLES
    now,                \* Date.now(), in ms since the page was loaded
    ticks,              \* how many times the clock has advanced
    priceCache,         \* this.priceCache
    isConverting,       \* this.isConverting
    convertBtnDisabled, \* elements.convertBtn.disabled
    result,             \* elements.result: text and hidden class
    error,              \* elements.error: text and hidden class
    fromCrypto,         \* elements.fromCrypto.value
    toCrypto,           \* elements.toCrypto.value
    amountLabel,        \* elements.amountLabel.textContent
    fromPrice,          \* elements.fromPrice.innerHTML
    toPrice,            \* elements.toPrice.innerHTML
    conv,               \* the convert() call suspended at its await, if any
    updates,            \* the updatePrices() calls suspended at their await, oldest first
    orphans,            \* per coin, the requests in flight whose Promise.all has settled
    requestsSent,       \* how many HTTP requests fetchPrice has sent so far
    events,             \* how many user events have been handled so far
    lastCallIgnored,    \* whether the last handler was a convert() that returned at once
    resultEl,           \* transfer.js: resultEl.textContent
    submits             \* transfer.js: the handleSubmit() calls suspended at an await

vars == <<now, ticks, priceCache, isConverting, convertBtnDisabled, result, error,
          fromCrypto, toCrypto, amountLabel, fromPrice, toPrice, conv, updates,
          orphans, requestsSent, events, lastCallIgnored, resultEl, submits>>

\* The state of the transfer form.
transferVars == <<resultEl, submits>>

Slots == {"from", "to"}
Other(slot) == IF slot = "from" THEN "to" ELSE "from"

\* No convert() call is suspended.
NoConv == [active |-> FALSE, amount |-> NaN, from |-> "", to |-> "",
           res |-> [from |-> Null, to |-> Null]]

PendingSlots(res) == {sl \in Slots : res[sl] = Pending}

RECURSIVE SumPending(_, _)
SumPending(us, i) ==
    IF i > Len(us) THEN 0
    ELSE Cardinality(PendingSlots(us[i].res)) + SumPending(us, i + 1)

RECURSIVE SumOrphans(_, _)
SumOrphans(o, S) ==
    IF S = {} THEN 0
    ELSE LET c == CHOOSE x \in S : TRUE IN o[c] + SumOrphans(o, S \ {c})

\* The HTTP requests in flight.
inFlight ==
    Cardinality(PendingSlots(conv.res)) + SumPending(updates, 1)
        + SumOrphans(orphans, Coins)

\* setLoadingState(isLoading): this.isConverting and convertBtn.disabled (the
\* two classList changes show the same flag).
setLoadingState(isLoading) == [isConverting |-> isLoading, disabled |-> isLoading]

\* showError that sets the text but leaves the region hidden.
showErrorHidden(message) == Region(message, TRUE)

\* clearMessages(), showError(message), showResult(message)
clearMessages == [result |-> Region(NoText, TRUE), error |-> Region(NoText, TRUE)]
showError(message) == Region(message, FALSE)
showResult(message) == Region(message, FALSE)

\* A join that waits for both promises and treats a rejection as a value
\* (Promise.allSettled read like Promise.all).
promiseAllSettled(res, slot, f) ==
    IF res[Other(slot)] = Pending THEN "pending" ELSE "fulfilled"

\* Promise.all over the two fetchPrice promises at the moment the one in `slot`
\* settles with f: it rejects at once on a rejection, is fulfilled when the
\* other one is fulfilled too, and stays pending otherwise.
promiseAll(res, slot, f) ==
    IF f.rejected THEN "rejected"
    ELSE IF res[Other(slot)] = Pending THEN "pending"
    ELSE "fulfilled"

\* A rejected Promise.all that aborts the request still in flight.
OrphanedAborted(o, op, slot) == o

\* The requests a settled Promise.all leaves in flight: nobody awaits them.
Orphaned(o, op, slot) ==
    IF op.res[Other(slot)] = Pending
    THEN [o EXCEPT ![op[Other(slot)]] = @ + 1]
    ELSE o

\* ---------------------------------------------------------------- convert
\* convert() without its re-entrancy guard.
convertNeverIgnored(converting) == FALSE

\* The first statement of convert(): a call while converting returns at once.
convertIgnored(converting) == converting

\* convert() that does not reset the loading state.
convertFinallyMissing == setLoadingState(TRUE)

\* The finally block of convert(): the loading state it leaves.
convertFinally == setLoadingState(FALSE)

\* convertMessage with the two prices swapped.
convertMessageSwapped(amount, from, to, fromP, toP) ==
    LET usdAmount == Mul(amount, toP)
        convertedAmount == Div(usdAmount, fromP)
    IN  resultMessage(amount, getCryptoDisplayName(from), convertedAmount,
                      getCryptoDisplayName(to), usdAmount)

\* The arithmetic and the message of a conversion whose prices arrived.
convertMessage(amount, from, to, fromP, toP) ==
    LET usdAmount == Mul(amount, fromP)
        convertedAmount == Div(usdAmount, toP)
    IN  resultMessage(amount, getCryptoDisplayName(from), convertedAmount,
                      getCryptoDisplayName(to), usdAmount)

\* The page after convert() has run to its end: what it rendered, then finally.
ConvertEnds(resultRegion, errorRegion) ==
    /\ result' = resultRegion
    /\ error' = errorRegion
    /\ isConverting' = convertFinally.isConverting
    /\ convertBtnDisabled' = convertFinally.disabled
    /\ conv' = NoConv

\* A user event. The events of a run are counted up to MaxEvents, except the
\* convert requests that arrive while a conversion is in progress.
UserEvent(counted) ==
    IF counted
    THEN events < MaxEvents /\ events' = events + 1
    ELSE events' = events

\* convert() called with isConverting set: it returns at its first statement.
ConvertIgnoredCall ==
    /\ lastCallIgnored' = TRUE
    /\ UNCHANGED transferVars
    /\ UNCHANGED <<now, ticks, priceCache, isConverting, convertBtnDisabled, result,
                   error, fromCrypto, toCrypto, amountLabel, fromPrice, toPrice,
                   conv, updates, orphans, requestsSent>>

\* convert() that fetches the two prices before it validates.
ConvertInvalidAfterFetch(validation) ==
    LET f1 == fetchPriceCall(priceCache, fromCrypto, now)
        f2 == fetchPriceCall(f1.cache, toCrypto, now)
        sent == {sl \in Slots : (IF sl = "from" THEN f1 ELSE f2).sent}
    IN  /\ ConvertEnds(clearMessages.result, showError(validation.error))
        /\ priceCache' = f2.cache
        /\ requestsSent' = requestsSent + Cardinality(sent)

\* convert() whose inputs fail validation: it runs to its end at once.
ConvertInvalid(validation) ==
    /\ ConvertEnds(clearMessages.result, showError(validation.error))
    /\ UNCHANGED <<priceCache, requestsSent>>

\* convert() whose inputs are valid, up to its await (or to its end when both
\* prices came from the cache).
ConvertValid(validation) ==
    LET f1 == fetchPriceCall(priceCache, fromCrypto, now)
        f2 == fetchPriceCall(f1.cache, toCrypto, now)
        sent == {sl \in Slots : (IF sl = "from" THEN f1 ELSE f2).sent}
    IN  /\ priceCache' = f2.cache
        /\ requestsSent' = requestsSent + Cardinality(sent)
        /\ IF sent = {}
           THEN ConvertEnds(
                    showResult(convertMessage(validation.amount, fromCrypto, toCrypto,
                                              f1.ret, f2.ret)),
                    clearMessages.error)
           ELSE /\ result' = clearMessages.result
                /\ error' = clearMessages.error
                /\ isConverting' = setLoadingState(TRUE).isConverting
                /\ convertBtnDisabled' = setLoadingState(TRUE).disabled
                /\ conv' = [active |-> TRUE, amount |-> validation.amount,
                            from |-> fromCrypto, to |-> toCrypto,
                            res |-> [from |-> f1.ret, to |-> f2.ret]]

\* convert(), called by a click on the convert button or by Enter in the amount
\* field holding amountValue: from the call to its first pending await (or to
\* its end).
Convert(amountValue) ==
    /\ UserEvent(~isConverting)
    /\ IF convertIgnored(isConverting)
       THEN ConvertIgnoredCall
       ELSE
         /\ lastCallIgnored' = FALSE
         /\ UNCHANGED transferVars
         /\ LET validation == validateInputs(amountValue, fromCrypto, toCrypto)
            IN  IF validation.isValid
                THEN ConvertValid(validation)
                ELSE ConvertInvalid(validation)
         /\ UNCHANGED <<now, ticks, fromCrypto, toCrypto, amountLabel, fromPrice,
                        toPrice, updates, orphans>>

\* convert(), resumed when the request of one of its two fetchPrice calls
\* settles with `resp`.
SettleConv(slot, resp) ==
    /\ conv.active
    /\ conv.res[slot] = Pending
    /\ LET f == fetchPriceSettle(priceCache, conv[slot], resp, now)
           res2 == [conv.res EXCEPT ![slot] = f.ret]
           join == promiseAll(conv.res, slot, f)
       IN  /\ priceCache' = f.cache
           /\ CASE join = "pending" ->
                     /\ conv' = [conv EXCEPT !.res = res2]
                     /\ UNCHANGED <<result, error, isConverting, convertBtnDisabled,
                                    orphans>>
                [] join = "fulfilled" ->
                     /\ ConvertEnds(
                            showResult(convertMessage(conv.amount, conv.from, conv.to,
                                                      res2.from, res2.to)),
                            error)
                     /\ UNCHANGED orphans
                [] join = "rejected" ->
                     /\ ConvertEnds(result, showError(FetchError))
                     /\ orphans' = Orphaned(orphans, conv, slot)
    /\ UNCHANGED <<now, ticks, fromCrypto, toCrypto, amountLabel, fromPrice, toPrice,
                   updates, requestsSent, events>>
    /\ lastCallIgnored' = FALSE
    /\ UNCHANGED transferVars

\* ----------------------------------------------------------- updatePrices
\* updateAmountLabel()
updateAmountLabel(from) == <<"Enter ", getCryptoDisplayName(from), " Amount:">>

\* The two panels updatePrices() writes once both prices arrived, at time t:
\* a formatPrice that throws lands in the catch block.
updatePanels(cache, from, to, fromP, toP, t) ==
    IF formatPrice(fromP).throws \/ formatPrice(toP).throws
    THEN [from |-> PanelUnavailable, to |-> PanelUnavailable]
    ELSE [from |-> PanelPrice(getCryptoDisplayName(from), fromP,
                              getCacheStatus(cache, from, t)),
          to |-> PanelPrice(getCryptoDisplayName(to), toP,
                            getCacheStatus(cache, to, t))]

RemoveAt(seq, i) == SubSeq(seq, 1, i - 1) \o SubSeq(seq, i + 1, Len(seq))

\* updatePrices() with the selections from and to, from its call to its first
\* pending await (or to its end).
updatePrices(from, to) ==
    LET swept == clearExpiredCache(priceCache, now)
        f1 == fetchPriceCall(swept, from, now)
        f2 == fetchPriceCall(f1.cache, to, now)
        sent == {sl \in Slots : (IF sl = "from" THEN f1 ELSE f2).sent}
        panels == updatePanels(f2.cache, from, to, f1.ret, f2.ret, now)
    IN  /\ priceCache' = f2.cache
        /\ requestsSent' = requestsSent + Cardinality(sent)
        /\ IF sent = {}
           THEN /\ fromPrice' = panels.from
                /\ toPrice' = panels.to
                /\ updates' = updates
           ELSE /\ fromPrice' = PanelLoading
                /\ toPrice' = PanelLoading
                /\ updates' = Append(updates, [from |-> from, to |-> to,
                                               res |-> [from |-> f1.ret, to |-> f2.ret]])

\* The change handler of the from select.
ChangeFrom(c) ==
    /\ UserEvent(TRUE)
    /\ lastCallIgnored' = FALSE
    /\ UNCHANGED transferVars
    /\ c # fromCrypto
    /\ fromCrypto' = c
    /\ amountLabel' = updateAmountLabel(c)
    /\ updatePrices(c, toCrypto)
    /\ UNCHANGED <<now, ticks, isConverting, convertBtnDisabled, result, error,
                   toCrypto, conv, orphans>>

\* The change handler of the to select.
ChangeTo(c) ==
    /\ UserEvent(TRUE)
    /\ lastCallIgnored' = FALSE
    /\ UNCHANGED transferVars
    /\ c # toCrypto
    /\ toCrypto' = c
    /\ updatePrices(fromCrypto, c)
    /\ UNCHANGED <<now, ticks, isConverting, convertBtnDisabled, result, error,
                   fromCrypto, amountLabel, conv, orphans>>

\* updatePrices(), resumed when the request of one of the two fetchPrice calls
\* of its i-th suspended call settles with `resp`.
SettleUpdate(i, slot, resp) ==
    /\ i \in 1..Len(updates)
    /\ updates[i].res[slot] = Pending
    /\ LET u == updates[i]
           f == fetchPriceSettle(priceCache, u[slot], resp, now)
           res2 == [u.res EXCEPT ![slot] = f.ret]
           join == promiseAll(u.res, slot, f)
           panels == updatePanels(f.cache, u.from, u.to, res2.from, res2.to, now)
       IN  /\ priceCache' = f.cache
           /\ CASE join = "pending" ->
                     /\ updates' = [updates EXCEPT ![i].res = res2]
                     /\ UNCHANGED <<fromPrice, toPrice, orphans>>
                [] join = "fulfilled" ->
                     /\ fromPrice' = panels.from
                     /\ toPrice' = panels.to
                     /\ updates' = RemoveAt(updates, i)
                     /\ UNCHANGED orphans
                [] join = "rejected" ->
                     /\ fromPrice' = PanelUnavailable
                     /\ toPrice' = PanelUnavailable
                     /\ updates' = RemoveAt(updates, i)
                     /\ orphans' = Orphaned(orphans, u, slot)
    /\ UNCHANGED <<now, ticks, isConverting, convertBtnDisabled, result, error,
                   fromCrypto, toCrypto, amountLabel, conv, requestsSent, events>>
    /\ lastCallIgnored' = FALSE
    /\ UNCHANGED transferVars

\* A request nobody awaits any more settles: fetchPrice still runs to its end.
SettleOrphan(coin, resp) ==
    /\ orphans[coin] > 0
    /\ priceCache' = fetchPriceSettle(priceCache, coin, resp, now).cache
    /\ orphans' = [orphans EXCEPT ![coin] = @ - 1]
    /\ UNCHANGED <<now, ticks, isConverting, convertBtnDisabled, result, error,
                   fromCrypto, toCrypto, amountLabel, fromPrice, toPrice, conv,
                   updates, requestsSent, events>>
    /\ lastCallIgnored' = FALSE
    /\ UNCHANGED transferVars

\* Time passes between two handlers.
Tick(d) ==
    /\ ticks < MaxTicks
    /\ now' = now + d
    /\ ticks' = ticks + 1
    /\ UNCHANGED <<priceCache, isConverting, convertBtnDisabled, result, error,
                   fromCrypto, toCrypto, amountLabel, fromPrice, toPrice, conv,
                   updates, orphans, requestsSent, events>>
    /\ lastCallIgnored' = FALSE
    /\ UNCHANGED transferVars

\* ---------------------------------------------------------- transfer form
\* A JSON string value (not empty).
JsString == [k |-> "string", n |-> 0, d |-> 1]

\* Whether a value is an object (a function from its field names to their
\* values) and not a number, a string, undefined or null.
IsObject(v) == "k" \notin DOMAIN v

\* typeof v
typeof(v) ==
    IF IsObject(v) THEN "object"
    ELSE CASE v.k \in {"num", "NaN", "Infinity", "-Infinity"} -> "number"
           [] v.k = "string" -> "string"
           [] v.k = "undefined" -> "undefined"
           [] OTHER -> "object"

\* Whether v counts as true in a condition.
Truthy(v) ==
    IF IsObject(v) THEN TRUE
    ELSE CASE v.k = "num" -> v.n # 0
           [] v.k \in {"Infinity", "-Infinity", "string"} -> TRUE
           [] OTHER -> FALSE

\* The JSON bodies the price API may answer with. A field that is missing is
\* written as a field holding undefined (a property access cannot tell the two
\* apart); every position holds a number of its own.
PriceObjects == {[usd_price |-> u] : u \in {Undefined, Num(3), JsString}}
PriceFields == {Undefined, Null, Num(9)} \cup PriceObjects
DataObjects ==
    {[usd_price |-> u, price |-> p] : u \in {Undefined, Num(2), JsString},
                                      p \in PriceFields}
DataFields == {Undefined, Null, Num(0), Num(5), JsString} \cup DataObjects
Bodies ==
    {Null, Num(7)}
        \cup {[usd_price |-> u, data |-> d] : u \in {Undefined, Num(1), JsString},
                                              d \in DataFields}

\* extractUsdPrice(data)
extractUsdPrice(data) ==
    IF ~Truthy(data) THEN Null
    ELSE IF typeof(Field(data, "usd_price")) = "number" THEN Field(data, "usd_price")
    ELSE IF Truthy(Field(data, "data"))
    THEN LET d == Field(data, "data")
         IN  IF typeof(Field(d, "usd_price")) = "number" THEN Field(d, "usd_price")
             ELSE IF Truthy(Field(d, "price"))
                     /\ typeof(Field(Field(d, "price"), "usd_price")) = "number"
             THEN Field(Field(d, "price"), "usd_price")
             ELSE IF typeof(d) = "number" THEN d
             ELSE Null
    ELSE Null

\* What the price API answers to the GET of handleSubmit: fetch() rejects, the
\* status is not 2xx, the body is not JSON, or the body is one of Bodies.
SubmitResponses ==
    {[kind |-> "network_error", ok |-> FALSE, body |-> Null],
     [kind |-> "http_error", ok |-> FALSE, body |-> Null],
     [kind |-> "bad_json", ok |-> TRUE, body |-> Null]}
        \cup {[kind |-> "json", ok |-> TRUE, body |-> b] : b \in Bodies}

\* No response has arrived yet.
NoResponse == [kind |-> "none", ok |-> FALSE, body |-> Null]

\* The strings the amount field of the form may hold.
SubmitAmounts == {<<>>, <<"1", "0">>, <<"a", "b", "c">>}

\* The texts handleSubmit writes into resultEl (the amount and the two toFixed
\* strings are kept as the values they print).
TextEmpty == <<>>
TextLoading == <<"Loading...">>
TextError(message) == <<"Error: ", message>>
TextPrice(usdPrice, amount, total) ==
    <<[price |-> toFixed(usdPrice, 6), amount |-> amount, total |-> toFixed(total, 6)]>>
UnableToRead == "Unable to read usd_price from response"

\* handleSubmit(event) up to await fetch(...).
Submit(coinId, amountValue) ==
    /\ UserEvent(TRUE)
    /\ resultEl' = TextLoading
    /\ submits' = Append(submits,
                         [coinId |-> coinId,
                          amount |-> parseFloat(IF amountValue = <<>> THEN <<"0">>
                                                ELSE amountValue),
                          stage |-> "fetch", resp |-> NoResponse])
    /\ UNCHANGED <<now, ticks, priceCache, isConverting, convertBtnDisabled, result,
                   error, fromCrypto, toCrypto, amountLabel, fromPrice, toPrice,
                   conv, updates, orphans, requestsSent, lastCallIgnored>>

\* handleSubmit resumed when fetch() of its i-th suspended call settles with
\* resp: up to await resp.json(), or to the catch block.
FetchSettles(i, resp) ==
    /\ i \in 1..Len(submits)
    /\ submits[i].stage = "fetch"
    /\ IF resp.kind = "network_error"
       THEN /\ resultEl' = TextError("Failed to fetch")
            /\ submits' = RemoveAt(submits, i)
       ELSE IF ~resp.ok
       THEN /\ resultEl' = TextError("HTTP status")
            /\ submits' = RemoveAt(submits, i)
       ELSE /\ resultEl' = resultEl
            /\ submits' = [submits EXCEPT ![i].stage = "json", ![i].resp = resp]
    /\ UNCHANGED <<now, ticks, priceCache, isConverting, convertBtnDisabled, result,
                   error, fromCrypto, toCrypto, amountLabel, fromPrice, toPrice,
                   conv, updates, orphans, requestsSent, events, lastCallIgnored>>

\* handleSubmit resumed when resp.json() of its i-th suspended call settles:
\* to its end.
JsonSettles(i) ==
    /\ i \in 1..Len(submits)
    /\ submits[i].stage = "json"
    /\ LET call == submits[i]
           usdPrice == extractUsdPrice(call.resp.body)
       IN  resultEl' =
               IF call.resp.kind = "bad_json" THEN TextError("Unexpected token")
               ELSE IF usdPrice = Null THEN TextError(UnableToRead)
               ELSE TextPrice(usdPrice, call.amount, Mul(call.amount, usdPrice))
    /\ submits' = RemoveAt(submits, i)
    /\ UNCHANGED <<now, ticks, priceCache, isConverting, convertBtnDisabled, result,
                   error, fromCrypto, toCrypto, amountLabel, fromPrice, toPrice,
                   conv, updates, orphans, requestsSent, events, lastCallIgnored>>

\* ----------------------------------------------------------- specification
\* The page after the constructor, with bitcoin and ethereum selected: init()
\* has called updateAmountLabel() and updatePrices() on an empty cache, so two
\* requests are in flight.
Init ==
    /\ now = 0
    /\ ticks = 0
    /\ priceCache = EmptyCache
    /\ isConverting = FALSE
    /\ convertBtnDisabled = FALSE
    /\ result = Region(NoText, TRUE)
    /\ error = Region(NoText, TRUE)
    /\ fromCrypto = "bitcoin"
    /\ toCrypto = "ethereum"
    /\ amountLabel = updateAmountLabel(fromCrypto)
    /\ fromPrice = PanelLoading
    /\ toPrice = PanelLoading
    /\ conv = NoConv
    /\ updates = <<[from |-> fromCrypto, to |-> toCrypto,
                    res |-> [from |-> Pending, to |-> Pending]]>>
    /\ orphans = [c \in Coins |-> 0]
    /\ requestsSent = 2
    /\ events = 0
    /\ lastCallIgnored = FALSE
    /\ resultEl = TextEmpty
    /\ submits = <<>>

Next ==
    \/ \E d \in TickSteps : Tick(d)
    \/ \E a \in AmountInputs : Convert(a)
    \/ \E c \in Coins : ChangeFrom(c)
    \/ \E c \in Coins : ChangeTo(c)
    \/ \E sl \in Slots :
          conv.active /\ \E r \in Responses(conv[sl]) : SettleConv(sl, r)
    \/ \E i \in 1..Len(updates), sl \in Slots :
          \E r \in Responses(updates[i][sl]) : SettleUpdate(i, sl, r)
    \/ \E c \in Coins : \E r \in Responses(c) : SettleOrphan(c, r)

Spec == Init /\ [][Next]_vars

\* Every request of the suspended convert() call is answered in the end (by a
\* response or by a network error).
ConvFetchSettles ==
    \E sl \in Slots : conv.active /\ \E r \in Responses(conv[sl]) : SettleConv(sl, r)

FairSpec == Spec /\ WF_vars(ConvFetchSettles)

\* The transfer form: submissions and the settling of their two awaits.
TransferNext ==
    \/ \E c \in Coins, a \in SubmitAmounts : Submit(c, a)
    \/ \E i \in 1..Len(submits) : \E r \in SubmitResponses : FetchSettles(i, r)
    \/ \E i \in 1..Len(submits) : JsonSettles(i)

TransferSpec == Init /\ [][TransferNext]_vars

\* ------------------------------------------------------------------ claims
\* The variables of the program (all but lastCallIgnored, which only records
\* what happened).
progVars == <<now, ticks, priceCache, isConverting, convertBtnDisabled, result,
              error, fromCrypto, toCrypto, amountLabel, fromPrice, toPrice, conv,
              updates, orphans, requestsSent, events, resultEl, submits>>

\* The expiration window of the cache contract, in ms.
Window == 60000

Age(cache, id, t) == t - cache[id].timestamp

\* An entry for id exists and is at most 60000 ms old at time t.
Live(cache, id, t) == id \in DOMAIN cache /\ Age(cache, id, t) <= Window

\* cache2 is cache without its entry for id, every other entry untouched.
OnlyRemoved(cache, cache2, id) ==
    /\ DOMAIN cache2 = (DOMAIN cache) \ {id}
    /\ \A c \in DOMAIN cache2 : cache2[c] = cache[c]

\* A selection change (the handlers that call updatePrices).
Change == \E c \in Coins : ChangeFrom(c) \/ ChangeTo(c)

\* A response on which a price fetch has to fail: not 2xx, or no JSON body.
Fails(resp) == resp.kind \in {"http_error", "bad_json"}

\* A response that carries no numeric usd_price.
LacksPrice(resp) ==
    Fails(resp) \/ "usd_price" \notin DOMAIN resp.body
        \/ resp.body.usd_price.k # "num"

\* C1: getCachedPrice(id) returns the stored price and leaves the cache alone
\* when an entry for id exists with now - timestamp <= 60000 (60000 included);
\* otherwise it returns null, and a stale entry is removed while every other
\* entry stays as it is.
C1_GetCachedPrice ==
    \A id \in Coins :
        LET g == getCachedPrice(priceCache, id, now)
        IN  IF Live(priceCache, id, now)
            THEN g.ret = priceCache[id].price /\ g.cache = priceCache
            ELSE g.ret = Null /\ OnlyRemoved(priceCache, g.cache, id)

\* A conversion served from entries aged exactly 60000 ms: no request was sent
\* but the two of init(), and a result is on the page.
C1_Witness ==
    /\ now = Window
    /\ requestsSent = 2
    /\ events = 1
    /\ ~result.hidden
    /\ \A id \in Coins : id \in DOMAIN priceCache /\ priceCache[id].timestamp = 0

\* C2: a convert() call that arrives while isConverting is set changes nothing
\* (no fetch, no message cleared or rendered, nothing queued, flag untouched),
\* and the flag is set exactly while the one convert() call is suspended.
C2_ReentrantCallIgnored ==
    /\ [](isConverting <=> conv.active)
    /\ [][(isConverting /\ \E a \in AmountInputs : Convert(a)) => UNCHANGED progVars]_vars

\* A convert() call was ignored while a conversion waits for its two fetches.
C2_Witness ==
    lastCallIgnored /\ isConverting /\ PendingSlots(conv.res) = Slots

\* C3: a conversion in progress always comes back to Idle (flag cleared, button
\* enabled), whichever way its fetches settle; a rejected validation never
\* leaves Idle.
C3_ReturnsToIdle == isConverting ~> (~isConverting /\ ~convertBtnDisabled)

\* A conversion came back to Idle through the fetch failure path.
C3_Witness ==
    ~isConverting /\ ~convertBtnDisabled /\ error = Region(FetchError, FALSE)

\* C4: when a price fetch of the conversion fails, whichever slot it is and
\* whether or not the other one has settled, the generic fetch error is shown and
\* the flow ends without a result; nothing is shown while the conversion waits,
\* and the request left in flight renders nothing when it settles.
C4_FailedFetchFailsConversion ==
    /\ [](isConverting => result = Region(NoText, TRUE))
    /\ [][\A sl \in Slots :
            conv.active =>
                \A r \in Responses(conv[sl]) :
                    (Fails(r) /\ SettleConv(sl, r)) =>
                        /\ error' = Region(FetchError, FALSE)
                        /\ result' = Region(NoText, TRUE)
                        /\ ~isConverting'
                        /\ ~conv'.active]_vars
    /\ [][(\E c \in Coins : \E r \in Responses(c) : SettleOrphan(c, r)) =>
            UNCHANGED <<result, error, isConverting>>]_vars

\* The from-currency fetch of a conversion failed while its to-currency
\* request is still in flight (the two requests of init() are pending too): the
\* error is shown at once, and no result.
C4_Witness ==
    /\ error = Region(FetchError, FALSE)
    /\ result = Region(NoText, TRUE)
    /\ ~isConverting
    /\ Len(updates) = 1
    /\ PendingSlots(updates[1].res) = Slots
    /\ orphans["ethereum"] = 1
    /\ orphans["bitcoin"] = 0

\* C5: a price fetch fails, stores nothing in the cache and hands no price to
\* its caller whenever the response is not 2xx or its body has no numeric
\* usd_price.
C5_FetchFailsWithoutPrice ==
    /\ [][\A sl \in Slots :
            conv.active =>
                \A r \in Responses(conv[sl]) :
                    (LacksPrice(r) /\ SettleConv(sl, r)) =>
                        /\ priceCache' = priceCache
                        /\ ~conv'.active
                        /\ error' = Region(FetchError, FALSE)]_vars
    /\ [][\A i \in 1..Len(updates), sl \in Slots :
            \A r \in Responses(updates[i][sl]) :
                (LacksPrice(r) /\ SettleUpdate(i, sl, r)) =>
                    /\ priceCache' = priceCache
                    /\ fromPrice' = PanelUnavailable
                    /\ toPrice' = PanelUnavailable]_vars
    /\ [][\A c \in Coins : \A r \in Responses(c) :
            (LacksPrice(r) /\ SettleOrphan(c, r)) => priceCache' = priceCache]_vars

\* A finite number greater than 0.
FinitePositive(x) == x.k = "num" /\ x.n > 0 /\ x.d > 0

\* C6: convert rejects a request exactly when the two currencies are equal
\* (same-currency error, whatever the amount) or the amount is not a finite
\* number greater than 0 (invalid-amount error); otherwise it accepts it; the
\* two errors differ.
C6_ValidationRejectsExactly ==
    [][\A a \in AmountInputs :
         (~isConverting /\ Convert(a)) =>
            IF fromCrypto = toCrypto
            THEN error' = Region(SameCurrencyError, FALSE) /\ ~isConverting'
            ELSE IF ~FinitePositive(parseFloat(a))
            THEN /\ error' = Region(InvalidAmountError(cryptoNames[fromCrypto]), FALSE)
                 /\ error'.text # SameCurrencyError
                 /\ ~isConverting'
            ELSE error' = Region(NoText, TRUE)]_vars

\* C7: a conversion whose request fails validation ends at once with only the
\* validation error on the page: it sends no request and leaves the cache and
\* the requests in flight as they were.
C7_InvalidBeforeNetwork ==
    [][\A a \in AmountInputs :
         (~isConverting /\ ~validateInputs(a, fromCrypto, toCrypto).isValid
            /\ Convert(a)) =>
            /\ requestsSent' = requestsSent
            /\ inFlight' = inFlight
            /\ priceCache' = priceCache
            /\ error' = Region(validateInputs(a, fromCrypto, toCrypto).error, FALSE)
            /\ error'.text # NoText
            /\ result' = Region(NoText, TRUE)
            /\ ~isConverting'
            /\ ~convertBtnDisabled'
            /\ UNCHANGED <<updates, orphans, fromPrice, toPrice>>]_vars

\* A conversion with an invalid amount ended with the amount error while the
\* two requests of init() are the only ones ever sent.
C7_Witness ==
    /\ error = Region(InvalidAmountError("BTC"), FALSE)
    /\ ~isConverting
    /\ requestsSent = 2
    /\ events = 1

\* The coin a slot of a call with the selections from and to asks for.
SlotCoin(sl, from, to) == IF sl = "from" THEN from ELSE to

\* The slots of such a call whose coin has no live entry.
SlotsNotLive(from, to) ==
    {sl \in Slots : ~Live(priceCache, SlotCoin(sl, from, to), now)}

\* Every entry that is live stays in the cache as it is.
LiveEntriesKept ==
    \A c \in Coins :
        Live(priceCache, c, now) =>
            c \in DOMAIN priceCache' /\ priceCache'[c] = priceCache[c]

C9_SweepRemovesExactlyExpired ==
    /\ [](LET swept == clearExpiredCache(priceCache, now)
          IN  /\ DOMAIN swept = {c \in Coins : Live(priceCache, c, now)}
              /\ \A c \in DOMAIN swept : swept[c] = priceCache[c])
    /\ [][Change =>
            /\ DOMAIN priceCache' = {c \in Coins : Live(priceCache, c, now)}
            /\ \A c \in DOMAIN priceCache' : priceCache'[c] = priceCache[c]
            /\ UNCHANGED <<isConverting, convertBtnDisabled, result, error, conv>>]_vars

\* A selection change swept the cache when its two entries were exactly
\* 60000 ms old and kept them: the panels it wrote show no remaining time, and
\* no request was sent after those of init().
C9_Witness ==
    /\ now = Window
    /\ events = 1
    /\ requestsSent = 2
    /\ result.hidden /\ error.hidden
    /\ fromPrice.k = "price" /\ ~fromPrice.status.shown
    /\ \A id \in Coins : id \in DOMAIN priceCache /\ priceCache[id].timestamp = 0

\* C10 (as amended): getCacheStatus reports 60 - floor(age / 1000) seconds, a
\* number from 1 to 60, exactly for the entries younger than 60000 ms; it reports
\* nothing when there is no entry or the entry is 60000 ms old or older.
C10_StatusBelowWindow ==
    \A id \in Coins :
        LET st == getCacheStatus(priceCache, id, now)
        IN  IF id \in DOMAIN priceCache /\ Age(priceCache, id, now) < Window
            THEN /\ st.shown
                 /\ st.seconds = 60 - (Age(priceCache, id, now) \div 1000)
                 /\ st.seconds \in 1..60
            ELSE st = NoStatus

\* updatePrices wrote a panel for an entry that was 59999 ms old: 1 s remains.
C10_Witness ==
    /\ fromPrice.k = "price"
    /\ fromPrice.status = [shown |-> TRUE, seconds |-> 1]
    /\ "bitcoin" \in DOMAIN priceCache
    /\ Age(priceCache, "bitcoin", now) = 59999

\* C10 (as claimed): getCacheStatus reports 60 - floor(age / 1000), clamped at
\* 0, for every entry get treats as live (0 at 60000 ms), and nothing exactly
\* when there is no live entry.
C10_StatusAgreesWithGet ==
    \A id \in Coins :
        LET st == getCacheStatus(priceCache, id, now)
            ttl == 60 - (Age(priceCache, id, now) \div 1000)
        IN  IF Live(priceCache, id, now)
            THEN st.shown /\ st.seconds = (IF ttl < 0 THEN 0 ELSE ttl)
            ELSE ~st.shown

\* The delays (ms) after which the claims below look at an entry again.
ProbeDelays == {0, 999, 1000, 1001, 59000, 59999, 60000, 60001, 61000, 120000}

\* C11: for an entry that stays as it is, the seconds getCacheStatus reports
\* never increase as time advances (at two times t1 <= t2 at which it reports,
\* the later number is not the larger one), and it never reports a negative
\* number of seconds, however old the entry is.
C11_TtlNeverIncreases ==
    /\ [](\A id \in DOMAIN priceCache :
            \A d1 \in ProbeDelays, d2 \in ProbeDelays :
                LET s1 == getCacheStatus(priceCache, id, now + d1)
                    s2 == getCacheStatus(priceCache, id, now + d2)
                IN  /\ s1.shown => s1.seconds >= 0
                    /\ (d1 <= d2 /\ s1.shown /\ s2.shown) => s2.seconds <= s1.seconds)
    /\ [][\A id \in Coins :
            (/\ id \in DOMAIN priceCache
             /\ id \in DOMAIN priceCache'
             /\ priceCache'[id] = priceCache[id]
             /\ getCacheStatus(priceCache, id, now).shown
             /\ getCacheStatus(priceCache', id, now').shown) =>
                getCacheStatus(priceCache', id, now').seconds
                    <= getCacheStatus(priceCache, id, now).seconds]_vars

\* The entry for ethereum was reported with 60 s left when its panel was
\* written; 59999 ms later the same entry is reported with 1 s left.
C11_Witness ==
    /\ "ethereum" \in DOMAIN priceCache
    /\ priceCache["ethereum"].timestamp = 0
    /\ now = 59999
    /\ toPrice.k = "price"
    /\ toPrice.status = [shown |-> TRUE, seconds |-> 60]
    /\ getCacheStatus(priceCache, "ethereum", now) = [shown |-> TRUE, seconds |-> 1]

\* A step in which the request for coin is answered with resp and the
\* fetchPrice call that sent it runs to its end.
Settles(coin, resp) ==
    \/ \E sl \in Slots : conv.active /\ conv[sl] = coin /\ SettleConv(sl, resp)
    \/ \E i \in 1..Len(updates), sl \in Slots :
          updates[i][sl] = coin /\ SettleUpdate(i, sl, resp)
    \/ SettleOrphan(coin, resp)

\* The prices the claims below put into the cache.
PutPrices == {Num(3), Num(7)}

\* C12: setCachedPrice(id, price) makes the entry for id (price, current time),
\* whether or not id had an entry, and leaves every other entry as it is; a
\* getCachedPrice(id) up to 60000 ms later then returns that price. Every
\* response fetchPrice accepts is stored this way.
C12_PutStoresPriceNow ==
    /\ [](\A id \in Coins, p \in PutPrices :
            LET put == setCachedPrice(priceCache, id, p, now)
            IN  /\ DOMAIN put = (DOMAIN priceCache) \cup {id}
                /\ put[id] = [price |-> p, timestamp |-> now]
                /\ \A o \in (DOMAIN priceCache) \ {id} : put[o] = priceCache[o]
                /\ \A d \in ProbeDelays :
                      d <= Window =>
                          getCachedPrice(put, id, now + d) = [ret |-> p, cache |-> put])
    /\ [][\A coin \in Coins : \A resp \in Responses(coin) :
            (Settles(coin, resp) /\ ~Fails(resp)) =>
                /\ DOMAIN priceCache' = (DOMAIN priceCache) \cup {coin}
                /\ priceCache'[coin] =
                       [price |-> Field(resp.body, "usd_price"), timestamp |-> now]
                /\ \A o \in (DOMAIN priceCache) \ {coin} :
                       priceCache'[o] = priceCache[o]]_vars

\* The price of bitcoin was stored 59999 ms after the page was loaded, next to
\* the entry for ethereum stored at the start, and is what a lookup returns.
C12_Witness ==
    /\ now = 59999
    /\ DOMAIN priceCache = Coins
    /\ priceCache["bitcoin"] = [price |-> Num(ApiPrice["bitcoin"]), timestamp |-> 59999]
    /\ priceCache["ethereum"].timestamp = 0
    /\ getCachedPrice(priceCache, "bitcoin", now).ret = Num(ApiPrice["bitcoin"])

\* The text "<amount> <from> = <converted> <to> (via USD: $<usd>)" of a
\* conversion of amt at the prices pf and pt.
Rendered(amt, from, to, pf, pt) ==
    <<[amount |-> toFixed(amt, 4), fromName |-> cryptoNames[from],
       convertedAmount |-> toFixed(Div(Mul(amt, pf), pt), 8),
       toName |-> cryptoNames[to],
       usdAmount |-> toFixed(Mul(amt, pf), 6)]>>

\* A decimal string "w.000..." with the given number of fraction digits.
Fixed(w, digits) ==
    [k |-> "fixed", negative |-> FALSE, whole |-> w, fraction |-> 0,
     digits |-> digits]

\* C13: a conversion that succeeds shows usdAmount = amount * fromPrice and
\* convertedAmount = usdAmount / toPrice, taken from the price its own fetch
\* for the from currency returned and the price its own fetch for the to
\* currency returned, never the other way round; 10 units at the prices 2 and
\* 4 show 20 USD and 5 units.
C13_ConversionArithmetic ==
    /\ [][\A sl \in Slots :
            conv.active =>
              \A resp \in Responses(conv[sl]) :
                (SettleConv(sl, resp) /\ ~result'.hidden) =>
                    result'.text =
                        Rendered(conv.amount, conv.from, conv.to,
                                 IF sl = "from" THEN Field(resp.body, "usd_price")
                                                ELSE conv.res["from"],
                                 IF sl = "to" THEN Field(resp.body, "usd_price")
                                              ELSE conv.res["to"])]_vars
    /\ [][\A a \in AmountInputs :
            (~isConverting /\ Convert(a) /\ ~result'.hidden) =>
                result'.text =
                    Rendered(parseFloat(a), fromCrypto, toCrypto,
                             priceCache[fromCrypto].price,
                             priceCache[toCrypto].price)]_vars
    /\ [](\A i \in 1..Len(result.text) :
            LET m == result.text[i]
            IN  (/\ ~result.hidden
                 /\ m.amount = Fixed(10, 4)
                 /\ m.fromName = "BTC" /\ m.toName = "ETH"
                 /\ m.usdAmount.k = "fixed" /\ m.convertedAmount.k = "fixed") =>
                    m.usdAmount = Fixed(20, 6) /\ m.convertedAmount = Fixed(5, 8))

\* The result region shows "10.0000 BTC = 5.00000000 ETH (via USD: $20.000000)".
C13_Witness ==
    /\ ~result.hidden
    /\ ~isConverting
    /\ result.text = <<[amount |-> Fixed(10, 4), fromName |-> "BTC",
                        convertedAmount |-> Fixed(5, 8), toName |-> "ETH",
                        usdAmount |-> Fixed(20, 6)]>>

\* A number (what typeof calls "number" in a JSON body).
IsNumber(v) == ~IsObject(v) /\ v.k = "num"

\* The price of the first of the three accepted shapes a body matches:
\* usd_price, data.usd_price, data.price.usd_price; null when it matches none.
FirstOfThreeShapes(body) ==
    LET top == Field(body, "usd_price")
        nested == Field(Field(body, "data"), "usd_price")
        deep == Field(Field(Field(body, "data"), "price"), "usd_price")
    IN  IF IsNumber(top) THEN top
        ELSE IF IsNumber(nested) THEN nested
        ELSE IF IsNumber(deep) THEN deep
        ELSE Null

\* C14: extractUsdPrice returns the numeric usd_price of the first shape the
\* body matches, in the order top level, data, data.price; for a body that
\* matches none of the three it returns null, and handleSubmit then shows the
\* "Unable to read usd_price" error; no other part of the body is returned.
C14_ExtractTriesThreeShapes ==
    /\ [](\A i \in 1..Len(submits) :
            submits[i].resp.kind = "json" =>
                extractUsdPrice(submits[i].resp.body)
                    = FirstOfThreeShapes(submits[i].resp.body))
    /\ [][\A i \in 1..Len(submits) :
            (/\ JsonSettles(i)
             /\ submits[i].resp.kind = "json"
             /\ FirstOfThreeShapes(submits[i].resp.body) = Null) =>
                resultEl' = TextError(UnableToRead)]_vars

\* A step in which a fetchPrice call for id ends successfully (its request is
\* answered with a response it accepts).
FetchSucceeds(id) == \E resp \in Responses(id) : Settles(id, resp) /\ ~Fails(resp)

\* C15: an entry appears in the cache only in a step in which a fetch for its
\* coin succeeds, and an existing entry changes (price or timestamp) only in
\* such a step taken after the entry has expired; an entry that is at most
\* 60000 ms old is never overwritten, whatever the interleaving of
\* updatePrices and convert calls with the responses.
C15_EntryLifecycle ==
    [][\A id \in Coins :
        /\ (id \notin DOMAIN priceCache /\ id \in DOMAIN priceCache') =>
               FetchSucceeds(id)
        /\ (/\ id \in DOMAIN priceCache
            /\ id \in DOMAIN priceCache'
            /\ priceCache'[id] # priceCache[id]) =>
               (FetchSucceeds(id) /\ ~Live(priceCache, id, now))]_vars

\* C16: every entry of the price cache holds a positive number as its price
\* (not undefined, zero, negative or something that is no number) and a
\* timestamp at which it can have been stored, whatever the API answers.
C16_EntriesHoldPositivePrice ==
    \A id \in DOMAIN priceCache :
        /\ priceCache[id].price.k = "num"
        /\ priceCache[id].price.n > 0
        /\ priceCache[id].price.d > 0
        /\ priceCache[id].timestamp \in 0..now

\* C17: convert() sends the requests of its two fetchPrice calls in one step,
\* before either can be answered; the first rejection fails the conversion at
\* once (fetch error shown, flow back to Idle) even while the other request is
\* unanswered, and that request stays in flight and its fetchPrice still runs
\* to its end when the answer arrives.
C17_ConcurrentFailFast ==
    /\ [][\A a \in AmountInputs :
            (~isConverting /\ Convert(a) /\ isConverting') =>
                /\ PendingSlots(conv'.res) = SlotsNotLive(fromCrypto, toCrypto)
                /\ requestsSent' = requestsSent + Cardinality(PendingSlots(conv'.res))
                /\ inFlight' = inFlight + Cardinality(PendingSlots(conv'.res))]_vars
    /\ [][\A sl \in Slots :
            conv.active =>
              \A resp \in Responses(conv[sl]) :
                (SettleConv(sl, resp) /\ Fails(resp)) =>
                    /\ error' = Region(FetchError, FALSE)
                    /\ result'.hidden
                    /\ ~isConverting' /\ ~convertBtnDisabled' /\ ~conv'.active
                    /\ inFlight' = inFlight - 1
                    /\ conv.res[Other(sl)] = Pending =>
                          orphans'[conv[Other(sl)]] = orphans[conv[Other(sl)]] + 1]_vars
    /\ [][\A c \in Coins : \A resp \in Responses(c) :
            (SettleOrphan(c, resp) /\ ~Fails(resp)) =>
                /\ c \in DOMAIN priceCache'
                /\ priceCache'[c].timestamp = now]_vars

\* The fetch for the to currency was rejected while the one for the from
\* currency was unanswered: the conversion has failed and is back in Idle, and
\* the request for bitcoin is still in flight.
C17_Witness ==
    /\ error = Region(FetchError, FALSE)
    /\ ~isConverting /\ ~convertBtnDisabled
    /\ orphans["bitcoin"] = 1 /\ orphans["ethereum"] = 0
    /\ requestsSent = 4
    /\ inFlight = 3

\* A step in which an accepted convert() call runs to its end: at once (invalid
\* inputs, or both prices cached) or when the answer it waited for arrives.
ConversionEnds ==
    \/ \E a \in AmountInputs : ~isConverting /\ Convert(a) /\ ~isConverting'
    \/ isConverting /\ ~isConverting'

\* C18: the result region and the error region are never both visible; both
\* are hidden while a conversion is in progress; and when an accepted convert()
\* call has run to its end exactly one of them is visible: the error after a
\* validation or fetch failure, the result otherwise.
C18_ResultErrorExclusive ==
    /\ [](result.hidden \/ error.hidden)
    /\ [](isConverting => (result.hidden /\ error.hidden))
    /\ [][ConversionEnds => (result'.hidden # error'.hidden)]_vars
    /\ [][\A a \in AmountInputs :
            (~isConverting /\ Convert(a) /\ ~isConverting') =>
                (~error'.hidden <=> ~validateInputs(a, fromCrypto, toCrypto).isValid)]_vars
    /\ [][\A sl \in Slots :
            conv.active =>
              \A resp \in Responses(conv[sl]) :
                (SettleConv(sl, resp) /\ ~isConverting') =>
                    (~error'.hidden <=> Fails(resp))]_vars

\* A conversion waited for its own two requests and then showed its result:
\* the result region is visible, the error region hidden and empty.
C18_Witness ==
    /\ ~isConverting
    /\ ~conv.active
    /\ ~result.hidden /\ Len(result.text) = 1
    /\ error = Region(NoText, TRUE)
    /\ requestsSent = 4
    /\ events = 1

\* C19: although updatePrices calls may overlap, once none of them is waiting
\* for a response any more the two panels show the currently selected from and
\* to currencies (their prices, or "Price unavailable"), i.e. what the call
\* started last has to show, in whatever order the responses arrived.
C19_PanelsShowSelection ==
    Len(updates) = 0 =>
        /\ fromPrice.k \in {"price", "Price unavailable"}
        /\ toPrice.k = fromPrice.k
        /\ fromPrice.k = "price" =>
              /\ fromPrice.name = cryptoNames[fromCrypto]
              /\ toPrice.name = cryptoNames[toCrypto]

====
